---- MODULE Spec2Model ----
(***************************************************************************)
(* Product store service: the HTTP handlers of service/routes.py over the  *)
(* Product entity, mapper and repository (service/models.py).              *)
(*                                                                         *)
(* Spec      : the service driven by HTTP requests (routes.py).            *)
(* SpecModel : the Product model driven directly, the way                  *)
(*             tests/test_models.py drives it.                             *)
(***************************************************************************)
EXTENDS Integers, Sequences, FiniteSets, TLC

VARIABLES
    db,       \* the store: [rows : id -> row, seq : last id the store handed out]
    issued,   \* ids returned so far by a 201 response of POST /products
    req,      \* the last HTTP request
    resp,     \* the response to it
    product,  \* the in-memory Product instance a test holds
    outcome   \* the last direct call on `product` and what it raised

vars == <<db, issued, req, resp, product, outcome>>

\* The number of creates a run performs (caps the store's id sequence).
MaxCreates == 2

-----------------------------------------------------------------------------
(* Python values *)

None == [none |-> TRUE]
Some(v) == [some |-> v]
IsNone(x) == "none" \in DOMAIN x

\* JSON scalars, tagged by their type so that isinstance() is decidable.
JStr(s) == [str |-> s]
JBool(b) == [bool |-> b]
JNum(n) == [num |-> n]
IsStr(v) == "str" \in DOMAIN v
IsBool(v) == "bool" \in DOMAIN v

\* A JSON document: null, or an object (a function from its keys).
JNull == [null |-> TRUE]
JObj(o) == [obj |-> o]
IsObj(d) == "obj" \in DOMAIN d

LowerAlpha == <<"a","b","c","d","e","f","g","h","i","j","k","l","m",
                "n","o","p","q","r","s","t","u","v","w","x","y","z">>
UpperAlpha == <<"A","B","C","D","E","F","G","H","I","J","K","L","M",
                "N","O","P","Q","R","S","T","U","V","W","X","Y","Z">>

UpperChar(c) ==
    IF \E i \in DOMAIN LowerAlpha : LowerAlpha[i] = c
    THEN UpperAlpha[CHOOSE i \in DOMAIN LowerAlpha : LowerAlpha[i] = c]
    ELSE c

LowerChar(c) ==
    IF \E i \in DOMAIN UpperAlpha : UpperAlpha[i] = c
    THEN LowerAlpha[CHOOSE i \in DOMAIN UpperAlpha : UpperAlpha[i] = c]
    ELSE c

\* str.upper() / str.lower(); a string is its sequence of characters.
Upper(s) == [i \in DOMAIN s |-> UpperChar(s[i])]
Lower(s) == [i \in DOMAIN s |-> LowerChar(s[i])]

-----------------------------------------------------------------------------
(* service/models.py: Category *)

CategoryName ==
    [UNKNOWN    |-> <<"U","N","K","N","O","W","N">>,
     CLOTHS     |-> <<"C","L","O","T","H","S">>,
     FOOD       |-> <<"F","O","O","D">>,
     HOUSEWARES |-> <<"H","O","U","S","E","W","A","R","E","S">>,
     AUTOMOTIVE |-> <<"A","U","T","O","M","O","T","I","V","E">>,
     TOOLS      |-> <<"T","O","O","L","S">>]

Category == DOMAIN CategoryName

\* getattr(Category, s): the member named s; AttributeError when there is none.
HasCategory(s) == \E m \in Category : CategoryName[m] = s
GetCategory(s) == CHOOSE m \in Category : CategoryName[m] = s

-----------------------------------------------------------------------------
(* service/models.py: Product, the entity and its mapper *)

Fields == {"name", "description", "price", "available", "category"}

\* Product(): an instance with nothing set.
NewProduct ==
    [id |-> None, name |-> None, description |-> None, price |-> None,
     available |-> None, category |-> None]

\* The columns of a product other than its primary key.
Row(p) ==
    [name |-> p.name, description |-> p.description, price |-> p.price,
     available |-> p.available, category |-> p.category]

\* The instance the store loads for the row with primary key id.
Loaded(id, row) ==
    [id |-> Some(id), name |-> row.name, description |-> row.description,
     price |-> row.price, available |-> row.available,
     category |-> row.category]

\* What deserialize() checks before it populates anything.
Valid(data) ==
    /\ IsObj(data)
    /\ Fields \subseteq DOMAIN data.obj
    /\ IsBool(data.obj.available)
    /\ IsStr(data.obj.category)
    /\ HasCategory(Upper(data.obj.category.str))

\* deserialize() assigning field by field and failing where it stands: the
\* name is already set when a later field is rejected.
deserialize_partial(p, data) ==
    IF Valid(data)
    THEN [ok |-> TRUE,
          product |->
              [id |-> p.id,
               name |-> data.obj.name.str,
               description |-> data.obj.description.str,
               price |-> data.obj.price.str,
               available |-> data.obj.available.bool,
               category |-> GetCategory(Upper(data.obj.category.str))]]
    ELSE IF IsObj(data) /\ "name" \in DOMAIN data.obj
    THEN [ok |-> FALSE, product |-> [p EXCEPT !.name = data.obj.name.str]]
    ELSE [ok |-> FALSE, product |-> p]

\* deserialize() defaulting an unresolvable category to UNKNOWN.
deserialize_defaultsUnknown(p, data) ==
    IF /\ IsObj(data)
       /\ Fields \subseteq DOMAIN data.obj
       /\ IsBool(data.obj.available)
    THEN [ok |-> TRUE,
          product |->
              [id |-> p.id,
               name |-> data.obj.name.str,
               description |-> data.obj.description.str,
               price |-> data.obj.price.str,
               available |-> data.obj.available.bool,
               category |->
                   IF /\ IsStr(data.obj.category)
                      /\ HasCategory(Upper(data.obj.category.str))
                   THEN GetCategory(Upper(data.obj.category.str))
                   ELSE "UNKNOWN"]]
    ELSE [ok |-> FALSE, product |-> p]

\* p.deserialize(data): ok and the populated instance, or DataValidationError
\* (ok = FALSE) and the instance as it was. The id is not read from data.
deserialize(p, data) ==
    IF Valid(data)
    THEN [ok |-> TRUE,
          product |->
              [id |-> p.id,
               name |-> data.obj.name.str,
               description |-> data.obj.description.str,
               price |-> data.obj.price.str,
               available |-> data.obj.available.bool,
               category |-> GetCategory(Upper(data.obj.category.str))]]
    ELSE [ok |-> FALSE, product |-> p]

\* p.serialize(): the wire form; price as a string, category as its
\* lowercase name.
serialize(p) ==
    [id |-> p.id, name |-> p.name, description |-> p.description,
     price |-> p.price, available |-> p.available,
     category |-> Lower(CategoryName[p.category])]

-----------------------------------------------------------------------------
(* service/models.py: Product, the repository; d is the store *)

\* p.create(): the store assigns the next id of its sequence and inserts.
Product_create(d, p) ==
    LET id == d.seq + 1 IN
    [db |-> [rows |-> (id :> Row(p)) @@ d.rows, seq |-> id],
     product |-> [p EXCEPT !.id = Some(id)],
     raised |-> "none"]

\* update() without the check of the id: commits whatever it is given.
Product_update_unchecked(d, p) ==
    [db |-> [d EXCEPT !.rows =
                [i \in DOMAIN d.rows |->
                    IF Some(i) = p.id THEN Row(p) ELSE d.rows[i]]],
     product |-> p,
     raised |-> "none"]

\* p.update(): DataValidationError when the id is unset; otherwise writes
\* every field to the existing row matching the id.
Product_update(d, p) ==
    IF IsNone(p.id)
    THEN [db |-> d, product |-> p, raised |-> "DataValidationError"]
    ELSE [db |-> [d EXCEPT !.rows =
                      [i \in DOMAIN d.rows |->
                          IF i = p.id.some THEN Row(p) ELSE d.rows[i]]],
          product |-> p,
          raised |-> "none"]

\* p.delete(): removes the row matching the id; no error when there is none.
Product_delete(d, p) ==
    [db |-> [d EXCEPT !.rows =
                [i \in {j \in DOMAIN d.rows : Some(j) # p.id} |-> d.rows[i]]],
     product |-> p,
     raised |-> "none"]

\* Product.find(id): the instance, or None.
Product_find(d, id) ==
    IF id \in DOMAIN d.rows THEN Loaded(id, d.rows[id]) ELSE None

\* Product.all() and the filtered queries: the matching instances.
Product_all(d) == {Loaded(i, d.rows[i]) : i \in DOMAIN d.rows}
Product_find_by_name(d, name) == {p \in Product_all(d) : p.name = name}
Product_find_by_category(d, category) ==
    {p \in Product_all(d) : p.category = category}
Product_find_by_availability(d, available) ==
    {p \in Product_all(d) : p.available = available}

-----------------------------------------------------------------------------
(* service/routes.py *)

\* A response: the status, and the body as its kind and the serialized
\* products it carries ("empty" is the body "").
Response(status, kind, items) ==
    [status |-> status, kind |-> kind, items |-> items]

\* abort(status, ...) and the handler of DataValidationError: an error body.
Abort(status) == Response(status, "error", {})

\* request.headers / request.args: functions from the keys that are present.
Get(m, k) == IF k \in DOMAIN m THEN Some(m[k]) ELSE None

\* check_content_type() that only rejects a missing header.
check_content_type_missingOnly(headers, content_type) ==
    "Content-Type" \in DOMAIN headers

\* check_content_type(content_type): TRUE when it returns, FALSE when it
\* aborts with 415.
check_content_type(headers, content_type) ==
    IF "Content-Type" \notin DOMAIN headers
    THEN FALSE
    ELSE headers["Content-Type"] = content_type

\* create_products() keeping the id of the payload when it carries one.
create_products_keepsId(headers, data) ==
    IF ~check_content_type(headers, "application/json")
    THEN [db |-> db, resp |-> Abort(415)]
    ELSE LET d == deserialize(NewProduct, data) IN
         IF ~d.ok
         THEN [db |-> db, resp |-> Abort(400)]
         ELSE IF "id" \in DOMAIN data.obj
         THEN LET id == data.obj.id.num
                  p == [d.product EXCEPT !.id = Some(id)]
              IN  [db |-> [db EXCEPT !.rows = (id :> Row(p)) @@ db.rows],
                   resp |-> Response(201, "product", {serialize(p)})]
         ELSE LET c == Product_create(db, d.product) IN
              [db |-> c.db,
               resp |-> Response(201, "product", {serialize(c.product)})]

\* POST /products
create_products(headers, data) ==
    IF ~check_content_type(headers, "application/json")
    THEN [db |-> db, resp |-> Abort(415)]
    ELSE LET d == deserialize(NewProduct, data) IN
         IF ~d.ok
         THEN [db |-> db, resp |-> Abort(400)]
         ELSE LET c == Product_create(db, d.product) IN
              [db |-> c.db,
               resp |-> Response(201, "product", {serialize(c.product)})]

\* list_products() answering an unresolvable category with every product.
list_products_ignoresBadCategory(args) ==
    LET name == Get(args, "name")
        cat == Get(args, "category")
        avail == Get(args, "available")
        ok(prods) ==
            [db |-> db,
             resp |-> Response(200, "list", {serialize(p) : p \in prods})]
    IN  IF ~IsNone(name)
        THEN ok(Product_find_by_name(db, name.some))
        ELSE IF ~IsNone(cat)
        THEN IF ~HasCategory(Upper(cat.some))
             THEN ok(Product_all(db))
             ELSE ok(Product_find_by_category(db, GetCategory(Upper(cat.some))))
        ELSE IF ~IsNone(avail)
        THEN ok(Product_find_by_availability(
                    db, avail.some \in {"true", "True", "TRUE"}))
        ELSE ok(Product_all(db))

\* list_products() applying every filter that is given, not the first.
list_products_intersects(args) ==
    LET name == Get(args, "name")
        cat == Get(args, "category")
        avail == Get(args, "available")
    IN  IF ~IsNone(cat) /\ ~HasCategory(Upper(cat.some))
        THEN [db |-> db, resp |-> Response(400, "empty", {})]
        ELSE LET prods ==
                     {p \in Product_all(db) :
                         /\ IsNone(name) \/ p.name = name.some
                         /\ IsNone(cat)
                                \/ p.category = GetCategory(Upper(cat.some))
                         /\ IsNone(avail)
                                \/ p.available =
                                       (avail.some \in {"true", "True", "TRUE"})}
             IN  [db |-> db,
                  resp |-> Response(200, "list",
                                    {serialize(p) : p \in prods})]

\* GET /products
list_products(args) ==
    LET name == Get(args, "name")
        cat == Get(args, "category")
        avail == Get(args, "available")
        ok(prods) ==
            [db |-> db,
             resp |-> Response(200, "list", {serialize(p) : p \in prods})]
    IN  IF ~IsNone(name)
        THEN ok(Product_find_by_name(db, name.some))
        ELSE IF ~IsNone(cat)
        THEN IF ~HasCategory(Upper(cat.some))
             THEN [db |-> db, resp |-> Response(400, "empty", {})]
             ELSE ok(Product_find_by_category(db, GetCategory(Upper(cat.some))))
        ELSE IF ~IsNone(avail)
        THEN ok(Product_find_by_availability(
                    db, avail.some \in {"true", "True", "TRUE"}))
        ELSE ok(Product_all(db))

\* GET /products/<product_id>
get_products(product_id) ==
    LET prod == Product_find(db, product_id) IN
    IF IsNone(prod)
    THEN [db |-> db, resp |-> Response(404, "empty", {})]
    ELSE [db |-> db, resp |-> Response(200, "product", {serialize(prod)})]

\* update_product() keeping the id of the payload when it carries one.
update_product_keepsId(product_id, headers, data) ==
    IF ~check_content_type(headers, "application/json")
    THEN [db |-> db, resp |-> Abort(415)]
    ELSE IF IsNone(Product_find(db, product_id))
    THEN [db |-> db, resp |-> Response(404, "empty", {})]
    ELSE LET d == deserialize(NewProduct, data) IN
         IF ~d.ok
         THEN [db |-> db, resp |-> Abort(400)]
         ELSE LET id == IF "id" \in DOMAIN data.obj
                        THEN data.obj.id.num ELSE product_id
                  u == Product_update(db, [d.product EXCEPT !.id = Some(id)])
              IN  [db |-> u.db,
                   resp |-> Response(200, "product", {serialize(u.product)})]

\* update_product() validating the payload before it looks the id up.
update_product_validatesFirst(product_id, headers, data) ==
    IF ~check_content_type(headers, "application/json")
    THEN [db |-> db, resp |-> Abort(415)]
    ELSE LET d == deserialize(NewProduct, data) IN
         IF ~d.ok
         THEN [db |-> db, resp |-> Abort(400)]
         ELSE IF IsNone(Product_find(db, product_id))
         THEN [db |-> db, resp |-> Response(404, "empty", {})]
         ELSE LET u == Product_update(
                           db, [d.product EXCEPT !.id = Some(product_id)])
              IN  [db |-> u.db,
                   resp |-> Response(200, "product", {serialize(u.product)})]

\* PUT /products/<product_id>
update_product(product_id, headers, data) ==
    IF ~check_content_type(headers, "application/json")
    THEN [db |-> db, resp |-> Abort(415)]
    ELSE IF IsNone(Product_find(db, product_id))
    THEN [db |-> db, resp |-> Response(404, "empty", {})]
    ELSE LET d == deserialize(NewProduct, data) IN
         IF ~d.ok
         THEN [db |-> db, resp |-> Abort(400)]
         ELSE LET u == Product_update(
                           db, [d.product EXCEPT !.id = Some(product_id)])
              IN  IF u.raised # "none"
                  THEN [db |-> db, resp |-> Abort(400)]
                  ELSE [db |-> u.db,
                        resp |-> Response(200, "product",
                                          {serialize(u.product)})]

\* delete_products() deleting through the query, without the filter on the id.
delete_products_all(product_id) ==
    LET prod == Product_find(db, product_id) IN
    IF IsNone(prod)
    THEN [db |-> db, resp |-> Response(404, "empty", {})]
    ELSE [db |-> [db EXCEPT !.rows = [i \in {} |-> NewProduct]],
          resp |-> Response(204, "empty", {})]

\* DELETE /products/<product_id>
delete_products(product_id) ==
    LET prod == Product_find(db, product_id) IN
    IF IsNone(prod)
    THEN [db |-> db, resp |-> Response(404, "empty", {})]
    ELSE [db |-> Product_delete(db, prod).db,
          resp |-> Response(204, "empty", {})]

-----------------------------------------------------------------------------
(* The requests a client sends *)

Header(k, v) == [h \in {k} |-> v]
Headers ==
    {Header("Accept", "*/*"),
     Header("Content-Type", "application/json"),
     Header("Content-Type", "text/plain")}

Body(n, d, p, a, c) ==
    [name |-> JStr(n), description |-> JStr(d), price |-> JStr(p),
     available |-> a, category |-> c]

Fedora ==
    Body("Fedora", "A red hat", "12.50", JBool(TRUE),
         JStr(<<"C","L","O","T","H","S">>))

ValidBodies ==
    {JObj(Fedora),
     JObj(Body("Apple", "", "0.99", JBool(FALSE), JStr(<<"f","o","o","d">>))),
     JObj(Body("Fedora", "A blue hat", "12.50", JBool(FALSE),
               JStr(<<"F","O","O","D">>))),
     \* a caller-supplied id
     JObj([id |-> JNum(1)] @@
          Body("Apple", "", "0.99", JBool(FALSE), JStr(<<"f","o","o","d">>)))}

InvalidBodies ==
    {JNull,
     JObj([k \in {} |-> JNull]),
     JObj([Fedora EXCEPT !.available = JStr("not_valid")]),
     JObj([Fedora EXCEPT !.category = JStr(<<"E","l","e","c","t","r","o","n","i","c","s">>)]),
     JObj([Fedora EXCEPT !.category = JNum(7)]),
     JObj([k \in Fields \ {"name"} |-> Fedora[k]])}

Bodies == ValidBodies \cup InvalidBodies

\* Path ids: every id the store can hand out, and one it never does.
PathIds == 1 .. (MaxCreates + 1)

Opt(S) == {None} \cup {Some(v) : v \in S}

\* The query string: only the parameters that are given.
Args(n, c, a) ==
    LET full == [name |-> n, category |-> c, available |-> a] IN
    [k \in {j \in DOMAIN full : ~IsNone(full[j])} |-> full[k].some]

Queries ==
    {Args(n, c, a) :
        n \in Opt({"Fedora", ""}),
        c \in Opt({<<"c","l","o","t","h","s">>, <<"F","o","o","d">>,
                   <<"E","l","e","c","t","r","o","n","i","c","s">>}),
        a \in Opt({"true", "True", "TRUE", "tRUE", "false"})}

-----------------------------------------------------------------------------
(* The service *)

Init ==
    /\ db = [rows |-> [i \in {} |-> NewProduct], seq |-> 0]
    /\ issued = {}
    /\ req = [method |-> "NONE"]
    /\ resp = Response(0, "empty", {})
    /\ product = NewProduct
    /\ outcome = [op |-> "none", raised |-> "none"]

\* One request handled to completion: r is the request, out what its handler
\* returns.
Handle(r, out) ==
    /\ req' = r
    /\ resp' = out.resp
    /\ db' = out.db
    /\ issued' = IF out.resp.status = 201
                 THEN issued \cup {p.id.some : p \in out.resp.items}
                 ELSE issued
    /\ UNCHANGED <<product, outcome>>

PostProducts ==
    /\ db.seq < MaxCreates
    /\ \E h \in Headers, d \in Bodies :
          Handle([method |-> "POST", headers |-> h, data |-> d],
                 create_products(h, d))

ListProducts ==
    \E q \in Queries :
        Handle([method |-> "LIST", args |-> q], list_products(q))

GetProduct ==
    \E i \in PathIds :
        Handle([method |-> "GET", product_id |-> i], get_products(i))

PutProduct ==
    \E i \in PathIds, h \in Headers, d \in Bodies :
        Handle([method |-> "PUT", product_id |-> i, headers |-> h, data |-> d],
               update_product(i, h, d))

DeleteProduct ==
    \E i \in PathIds :
        Handle([method |-> "DELETE", product_id |-> i], delete_products(i))

Next ==
    \/ PostProducts
    \/ ListProducts
    \/ GetProduct
    \/ PutProduct
    \/ DeleteProduct

Spec == Init /\ [][Next]_vars

-----------------------------------------------------------------------------
(* The Product model driven directly (tests/test_models.py) *)

\* product = ProductFactory(); product.id = None
FactoryProducts ==
    {[id |-> None, name |-> "word", description |-> "sentence",
      price |-> "1234", available |-> a, category |-> c] :
        a \in BOOLEAN, c \in {"Electronics", "Clothing", "Books", "Toys"}}

\* One call on the instance: r is what the method returns.
Call(op, r) ==
    /\ product' = r.product
    /\ db' = r.db
    /\ outcome' = [op |-> op, raised |-> r.raised]
    /\ UNCHANGED <<issued, req, resp>>

ModelFactory ==
    /\ \E p \in FactoryProducts : product' = p
    /\ outcome' = [op |-> "factory", raised |-> "none"]
    /\ UNCHANGED <<db, issued, req, resp>>

ModelCreate ==
    /\ outcome.op # "none"
    /\ IsNone(product.id)
    /\ db.seq < MaxCreates
    /\ Call("create", Product_create(db, product))

ModelUpdate ==
    /\ outcome.op # "none"
    /\ Call("update", Product_update(db, product))

ModelDelete ==
    /\ outcome.op # "none"
    /\ Call("delete", Product_delete(db, product))

ModelDeserialize ==
    /\ outcome.op # "none"
    /\ \E d \in Bodies :
          LET r == deserialize(product, d) IN
          /\ product' = r.product
          /\ outcome' = [op |-> "deserialize", data |-> d,
                         raised |-> IF r.ok THEN "none"
                                    ELSE "DataValidationError"]
    /\ UNCHANGED <<db, issued, req, resp>>

NextModel ==
    \/ ModelFactory
    \/ ModelCreate
    \/ ModelUpdate
    \/ ModelDelete
    \/ ModelDeserialize

SpecModel == Init /\ [][NextModel]_vars

-----------------------------------------------------------------------------
(* Properties of the service (Spec) *)

Ids(d) == DOMAIN d.rows

\* The row a valid payload asks for, read off the payload itself.
Holds(row, data) ==
    /\ row.name = data.obj.name.str
    /\ row.description = data.obj.description.str
    /\ row.price = data.obj.price.str
    /\ row.available = data.obj.available.bool
    /\ CategoryName[row.category] = Upper(data.obj.category.str)

\* Every row of d other than row i is in e as it was.
OthersKept(d, e, i) ==
    \A j \in Ids(d) \ {i} : j \in Ids(e) /\ e.rows[j] = d.rows[j]

JsonContentType(h) ==
    "Content-Type" \in DOMAIN h /\ h["Content-Type"] = "application/json"

\* C1: every POST /products answered 201 returns a non-null id that no
\* earlier create returned (also when that row has been deleted since) and
\* that is not taken from the payload, and adds exactly one row, holding the
\* submitted name, description, price, available and category.
C1_CreateAssignsFreshId ==
    [][(req'.method = "POST" /\ resp'.status = 201) =>
          \E i \in Ids(db') :
              /\ resp'.items = {serialize(Loaded(i, db'.rows[i]))}
              /\ \A it \in resp'.items : it.id = Some(i)
              /\ i \notin issued
              /\ i \notin Ids(db)
              /\ Ids(db') = Ids(db) \cup {i}
              /\ OthersKept(db, db', i)
              /\ Holds(db'.rows[i], req'.data)]_vars

\* A create whose payload carries the id of an earlier, since deleted, row.
C1_Witness ==
    /\ req.method = "POST"
    /\ resp.status = 201
    /\ "id" \in DOMAIN req.data.obj
    /\ req.data.obj.id.num \in issued \ Ids(db)
    /\ Cardinality(issued) = 2

\* C2: a PUT /products/{id} answered 200 leaves the row with the path id
\* holding the payload's fields, whatever id the payload carries, and leaves
\* the set of ids and every other row as they were.
C2_UpdateWritesTheRow ==
    [][(req'.method = "PUT" /\ resp'.status = 200) =>
          LET i == req'.product_id IN
          /\ JsonContentType(req'.headers)
          /\ i \in Ids(db)
          /\ Ids(db') = Ids(db)
          /\ db'.seq = db.seq
          /\ OthersKept(db, db', i)
          /\ Holds(db'.rows[i], req'.data)
          /\ Product_find(db', i).id = Some(i)
          /\ resp'.items = {serialize(Product_find(db', i))}
          /\ \A it \in resp'.items : it.id = Some(i)]_vars

\* An update of row 2 whose payload carries the id of row 1.
C2_Witness ==
    /\ req.method = "PUT"
    /\ resp.status = 200
    /\ req.product_id = 2
    /\ "id" \in DOMAIN req.data.obj
    /\ req.data.obj.id.num = 1
    /\ 1 \in Ids(db)
    /\ db.rows[1] # db.rows[2]

\* C3: a DELETE /products/{id} answered 204 has an empty body and removes
\* exactly the row with that id, all() shrinking by one and every other row
\* staying as it was; and an id that was handed out and has no row any more
\* never has a row again, so that every later GET on it is answered 404.
C3_DeleteRemovesOneRow ==
    [][/\ (req'.method = "DELETE" /\ resp'.status = 204) =>
              LET i == req'.product_id IN
              /\ resp'.kind = "empty"
              /\ i \in Ids(db)
              /\ Ids(db') = Ids(db) \ {i}
              /\ Cardinality(Product_all(db')) =
                     Cardinality(Product_all(db)) - 1
              /\ OthersKept(db, db', i)
       /\ \A i \in issued \ Ids(db) :
              /\ i \notin Ids(db')
              /\ IsNone(Product_find(db', i))
              /\ (req'.method = "GET" /\ req'.product_id = i) =>
                     resp'.status = 404]_vars

\* A delete that leaves another row behind.
C3_Witness ==
    /\ req.method = "DELETE"
    /\ resp.status = 204
    /\ req.product_id \in issued \ Ids(db)
    /\ Ids(db) # {}

\* C4: a POST /products whose Content-Type is missing or is not
\* application/json is answered 415, one whose payload fails validation is
\* answered 400, and either leaves the store as it was: no row added or
\* changed, no id used up.
C4_FailedCreateChangesNothing ==
    [][req'.method = "POST" =>
          /\ ~JsonContentType(req'.headers) =>
                 resp'.status = 415
          /\ (JsonContentType(req'.headers) /\ ~Valid(req'.data)) =>
                 resp'.status = 400
          /\ resp'.status # 201 =>
                 /\ resp'.status \in {400, 415}
                 /\ db' = db
                 /\ issued' = issued]_vars

\* A create with a Content-Type that is not application/json, on a store
\* that holds a row.
C4_Witness ==
    /\ req.method = "POST"
    /\ "Content-Type" \in DOMAIN req.headers
    /\ Valid(req.data)
    /\ resp.status = 415
    /\ Ids(db) # {}

\* C5: for an id that has no row, GET, DELETE and (with Content-Type
\* application/json, valid payload or not) PUT are answered 404 with an
\* empty body and leave the store as it was.
C5_AbsentIdIs404 ==
    [][(/\ req'.method \in {"GET", "DELETE", "PUT"}
        /\ req'.product_id \notin Ids(db)
        /\ req'.method = "PUT" => JsonContentType(req'.headers)) =>
          /\ resp'.status = 404
          /\ resp'.kind = "empty"
          /\ db' = db]_vars

\* A PUT with an invalid payload on an id whose row has been deleted.
C5_Witness ==
    /\ req.method = "PUT"
    /\ ~Valid(req.data)
    /\ req.product_id \in issued \ Ids(db)
    /\ resp.status = 404

\* A payload whose category resolves to no member of Category.
BadCategory(data) ==
    /\ IsObj(data)
    /\ "category" \in DOMAIN data.obj
    /\ ~(/\ IsStr(data.obj.category)
         /\ HasCategory(Upper(data.obj.category.str)))

Resolves(args) == HasCategory(Upper(args.category))

\* The serialized products of a response all have the category asked for.
SharesCategory(items, args) ==
    \A it \in items : Upper(it.category) = Upper(args.category)

\* C9 as stated: every GET /products with a category that resolves to no
\* member is answered 400, and one whose category resolves is answered 200
\* with only products of that category.
C9_Original ==
    (req.method = "LIST" /\ "category" \in DOMAIN req.args) =>
        IF Resolves(req.args)
        THEN resp.status = 200 /\ SharesCategory(resp.items, req.args)
        ELSE resp.status = 400

\* C9, amended: every GET /products with no name parameter and a category
\* that resolves to no member is answered 400, and one with no name
\* parameter whose category resolves is answered 200 with only products of
\* that category; no GET /products changes the store.
C9_CategoryFilter ==
    [][req'.method = "LIST" =>
          /\ db' = db
          /\ issued' = issued
          /\ ("category" \in DOMAIN req'.args
                  /\ "name" \notin DOMAIN req'.args) =>
                 IF Resolves(req'.args)
                 THEN /\ resp'.status = 200
                      /\ SharesCategory(resp'.items, req'.args)
                 ELSE resp'.status = 400]_vars

\* A query by an unresolvable category alone, on a store that holds rows.
C9_Witness ==
    /\ req.method = "LIST"
    /\ DOMAIN req.args = {"category"}
    /\ ~Resolves(req.args)
    /\ resp.status = 400
    /\ Ids(db) # {}

\* The ids of the rows the one filter of a query selects: name before
\* category before available before none.
Selected(args) ==
    IF "name" \in DOMAIN args
    THEN {i \in Ids(db) : db.rows[i].name = args.name}
    ELSE IF "category" \in DOMAIN args
    THEN {i \in Ids(db) : CategoryName[db.rows[i].category] = Upper(args.category)}
    ELSE IF "available" \in DOMAIN args
    THEN {i \in Ids(db) :
             db.rows[i].available = (args.available \in {"true", "True", "TRUE"})}
    ELSE Ids(db)

\* C10: GET /products answers with exactly the stored rows that match the
\* first given of name, category, available (all rows when none is given);
\* parameters of lower precedence are neither applied nor validated, so the
\* only 400 is an unresolvable category with no name.
C10_OneFilterByPrecedence ==
    req.method = "LIST" =>
        IF /\ "name" \notin DOMAIN req.args
           /\ "category" \in DOMAIN req.args
           /\ ~Resolves(req.args)
        THEN resp.status = 400
        ELSE /\ resp.status = 200
             /\ resp.items =
                    {serialize(Loaded(i, db.rows[i])) : i \in Selected(req.args)}

\* A query by name, with a category that does not resolve and an available
\* that one of the two products of that name does not match.
C10_Witness ==
    /\ req.method = "LIST"
    /\ DOMAIN req.args = {"name", "category", "available"}
    /\ ~Resolves(req.args)
    /\ resp.status = 200
    /\ Cardinality(resp.items) = 2
    /\ \E x, y \in resp.items : x.available # y.available

-----------------------------------------------------------------------------
(* Properties of the model driven directly (SpecModel) *)

\* C6: update() on an instance whose id is None raises DataValidationError
\* and changes no row; update() never changes the id of the instance nor
\* the ids of the store.
C6_UpdateNeedsId ==
    [][outcome'.op = "update" =>
          /\ IsNone(product.id) =>
                 /\ outcome'.raised = "DataValidationError"
                 /\ db' = db
          /\ product'.id = product.id
          /\ Ids(db') = Ids(db)]_vars

\* A refused update, on a store that holds rows.
C6_Witness ==
    /\ outcome.op = "update"
    /\ outcome.raised = "DataValidationError"
    /\ IsNone(product.id)
    /\ Ids(db) # {}

\* The inputs C7 names: not an object, no name key, or an available that is
\* not a boolean.
Garbage(data) ==
    IF ~IsObj(data)
    THEN TRUE
    ELSE \/ "name" \notin DOMAIN data.obj
         \/ /\ "available" \in DOMAIN data.obj
            /\ ~IsBool(data.obj.available)

\* C7: deserialize() raises DataValidationError for an input that is not an
\* object, lacks the name key or has an available that is not a boolean; a
\* deserialize() that raises leaves the instance as it was; and no
\* deserialize() touches the store.
C7_DeserializeFailsFast ==
    [][outcome'.op = "deserialize" =>
          /\ Garbage(outcome'.data) =>
                 outcome'.raised = "DataValidationError"
          /\ outcome'.raised = "DataValidationError" => product' = product
          /\ db' = db]_vars

\* A persisted instance refusing a payload that has a name and an available
\* that is not a boolean.
C7_Witness ==
    /\ outcome.op = "deserialize"
    /\ outcome.raised = "DataValidationError"
    /\ IsObj(outcome.data)
    /\ "name" \in DOMAIN outcome.data.obj
    /\ "available" \in DOMAIN outcome.data.obj
    /\ ~IsBool(outcome.data.obj.available)
    /\ product.name # outcome.data.obj.name.str
    /\ ~IsNone(product.id)
    /\ Ids(db) # {}

====
